---- MODULE Spec2Model ----
(***************************************************************************)
(* Model of the fake agent (backend/internal/agent/fake/fake_agent.py):    *)
(* a process that emits one init record, then, for every non-empty line    *)
(* read from stdin, two text deltas, an assistant record and a result      *)
(* record, cycling through a fixed list of canned strings.                 *)
(*                                                                         *)
(* Strings are sequences of one-character strings, so that len, find and   *)
(* slicing are computed as Python computes them.  A record written by      *)
(* emit is kept as the dict that json.dumps serialises, one per line of    *)
(* the output stream.                                                      *)
(*                                                                         *)
(* Spec and FairSpec are the agent with a stdout that works, FailSpec the  *)
(* agent with a stdout that can raise, SplitSpec one turn on an arbitrary  *)
(* string, DistSpec the build step scripts/compress_dist.py.               *)
(***************************************************************************)
EXTENDS Integers, Sequences, FiniteSets, TLC

VARIABLES
    pc,         \* position of main: "init", "await", "delta1", "sleep",
                \* "delta2", "assistant", "result", "done"; "crashed" after
                \* an exception; "split" where one turn is taken alone;
                \* "idle" where the agent is not run
    turns,      \* main's local  turns
    line,       \* main's local  line  (after rstrip)
    joke,       \* main's local  joke
    part1,      \* main's local  part1
    part2,      \* main's local  part2
    out,        \* stdout: the records written and flushed so far
    buf,        \* stdout: the records written and not flushed yet
    stdoutFailed, \* stdout: TRUE once a write or flush has raised
    slept,      \* number of pauses (time.sleep) main has gone through
    nread,      \* stdin: number of lines consumed so far
    nreq,       \* stdin: number of consumed lines that were more than a
                \* bare line terminator
    stdinOpen,  \* stdin: FALSE once a line without terminator was read
                \* (only end of input can follow it)
    cpc,        \* compress_dist: position of its main: "idle" (not run),
                \* "start", "walk", "done", "exit1", "raised"
    distIsDir,  \* compress_dist: the dist directory exists
    fs,         \* compress_dist: the regular files under dist
    orig,       \* compress_dist: the regular files under dist at the start
    todo,       \* compress_dist: what is left of sorted(dist.rglob("*"))
    ran         \* compress_dist: the files brotli has compressed, in order

agentVars ==
    <<pc, turns, line, joke, part1, part2, out, buf, stdoutFailed, slept,
      nread, nreq, stdinOpen>>

distVars == <<cpc, distIsDir, fs, orig, todo, ran>>

vars == <<agentVars, distVars>>

\* Bound on the number of lines the environment writes to stdin.
MaxLines == 8

\* Bound on the length of the strings the split function is applied to
\* when it is taken alone.
MaxLen == 5

\* Characters of those strings: two letters, the space, and a whitespace
\* character that is not the space.
Alphabet == {"a", "b", " ", "\t"}

Whitespace == {" ", "\t", "\n", "\r"}

RECURSIVE StringsOfLen(_)
StringsOfLen(n) ==
    IF n = 0 THEN {<<>>}
    ELSE {Append(s, c) : s \in StringsOfLen(n - 1), c \in Alphabet}

Strings == UNION {StringsOfLen(n) : n \in 0..MaxLen}

-----------------------------------------------------------------------------
\* The canned list.

JOKES == <<
  <<
    "W","h","y"," ","d","o"," ","p","r","o","g","r","a","m","m","e","r","s"," ","p","r","e","f",
    "e","r"," ","d","a","r","k"," ","m","o","d","e","?"," ","B","e","c","a","u","s","e"," ","l",
    "i","g","h","t"," ","a","t","t","r","a","c","t","s"," ","b","u","g","s","."
  >>,
  <<
    "A"," ","S","Q","L"," ","q","u","e","r","y"," ","w","a","l","k","s"," ","i","n","t","o"," ",
    "a"," ","b","a","r",","," ","s","e","e","s"," ","t","w","o"," ","t","a","b","l","e","s",",",
    " ","a","n","d"," ","a","s","k","s",":"," ","C","a","n"," ","I"," ","J","O","I","N"," ","y",
    "o","u","?"
  >>,
  <<
    "W","h","y"," ","d","o"," ","J","a","v","a"," ","d","e","v","e","l","o","p","e","r","s"," ",
    "w","e","a","r"," ","g","l","a","s","s","e","s","?"," ","B","e","c","a","u","s","e"," ","t",
    "h","e","y"," ","c","a","n"," ","n","o","t"," ","C","#","."
  >>,
  <<
    "H","o","w"," ","m","a","n","y"," ","p","r","o","g","r","a","m","m","e","r","s"," ","d","o",
    "e","s"," ","i","t"," ","t","a","k","e"," ","t","o"," ","c","h","a","n","g","e"," ","a"," ",
    "l","i","g","h","t"," ","b","u","l","b","?"," ","N","o","n","e",","," ","t","h","a","t"," ",
    "i","s"," ","a"," ","h","a","r","d","w","a","r","e"," ","p","r","o","b","l","e","m","."
  >>,
  <<
    "T","h","e","r","e"," ","a","r","e"," ","o","n","l","y"," ","1","0"," ","t","y","p","e","s",
    " ","o","f"," ","p","e","o","p","l","e",":"," ","t","h","o","s","e"," ","w","h","o"," ","u",
    "n","d","e","r","s","t","a","n","d"," ","b","i","n","a","r","y"," ","a","n","d"," ","t","h",
    "o","s","e"," ","w","h","o"," ","d","o"," ","n","o","t","."
  >>,
  <<
    "A"," ","p","r","o","g","r","a","m","m","e","r"," ","p","u","t","s"," ","t","w","o"," ","g",
    "l","a","s","s","e","s"," ","o","n"," ","h","i","s"," ","b","e","d","s","i","d","e"," ","t",
    "a","b","l","e"," ","b","e","f","o","r","e"," ","g","o","i","n","g"," ","t","o"," ","s","l",
    "e","e","p","."," ","A"," ","f","u","l","l"," ","o","n","e",","," ","i","n"," ","c","a","s",
    "e"," ","h","e"," ","g","e","t","s"," ","t","h","i","r","s","t","y",","," ","a","n","d"," ",
    "a","n"," ","e","m","p","t","y"," ","o","n","e",","," ","i","n"," ","c","a","s","e"," ","h",
    "e"," ","d","o","e","s"," ","n","o","t","."
  >>
>>

-----------------------------------------------------------------------------
\* Python's string primitives.

Min2(a, b) == IF a <= b THEN a ELSE b

\* s[:n] for n >= 0
SliceTo(s, n) == SubSeq(s, 1, Min2(n, Len(s)))

\* s[n:] for n >= 0
SliceFrom(s, n) == SubSeq(s, Min2(n, Len(s)) + 1, Len(s))

\* Mutant: the highest index holding c is returned (rfind).
FindLast(s, c, start) ==
    LET hits == {i \in start..(Len(s) - 1) : s[i + 1] = c}
    IN  IF hits = {} THEN -1
        ELSE CHOOSE i \in hits : \A k \in hits : i >= k

\* s.find(c, start) for a one-character c and 0 <= start: the lowest
\* 0-based index >= start holding c, or -1
Find(s, c, start) ==
    LET hits == {i \in start..(Len(s) - 1) : s[i + 1] = c}
    IN  IF hits = {} THEN -1
        ELSE CHOOSE i \in hits : \A k \in hits : i <= k

\* Mutant: all trailing whitespace is stripped (rstrip with no argument).
RECURSIVE RstripWhitespace(_)
RstripWhitespace(s) ==
    IF Len(s) > 0 /\ s[Len(s)] \in Whitespace
    THEN RstripWhitespace(SubSeq(s, 1, Len(s) - 1))
    ELSE s

\* Mutant: the line terminator is left on the line.
RstripNothing(s) == s

\* s.rstrip("\n")
RECURSIVE Rstrip(_)
Rstrip(s) ==
    IF Len(s) > 0 /\ s[Len(s)] = "\n"
    THEN Rstrip(SubSeq(s, 1, Len(s) - 1))
    ELSE s

-----------------------------------------------------------------------------
\* The body of the loop, as functions of its locals.

\* Mutant: the joke is selected with the counter already incremented.
SelectJokeAfterIncrement(t) == JOKES[((t + 1) % Len(JOKES)) + 1]

\* joke = JOKES[turns % len(JOKES)]   (JOKES is 1-based here)
SelectJoke(t) == JOKES[(t % Len(JOKES)) + 1]

\* Mutant: the middle is rounded up.
MidRoundedUp(j) == (Len(j) + 1) \div 2

\* mid = len(joke) // 2
Mid(j) == Len(j) \div 2

\* Mutant: the space is searched from the start of the joke.
SplitPointFromStart(j) ==
    LET sp == Find(j, " ", 0)
    IN  IF sp = -1 THEN Mid(j) ELSE sp

\* sp = joke.find(" ", mid); if sp == -1: sp = mid
SplitPoint(j) ==
    LET sp == Find(j, " ", Mid(j))
    IN  IF sp = -1 THEN Mid(j) ELSE sp

\* Mutant: the first part stops before the split point.
Part1BeforeSplitPoint(j) == SliceTo(j, SplitPoint(j))

\* part1 = joke[: sp + 1]
Part1(j) == SliceTo(j, SplitPoint(j) + 1)

\* Mutant: the second part starts at the split point, not after it.
Part2FromSplitPoint(j) == SliceFrom(j, SplitPoint(j))

\* part2 = joke[sp + 1 :]
Part2(j) == SliceFrom(j, SplitPoint(j) + 1)

-----------------------------------------------------------------------------
\* The dicts handed to emit.

InitRecord ==
    [type |-> "system", subtype |-> "init", session_id |-> "test-session",
     cwd |-> "/workspace", model |-> "fake-model",
     claude_code_version |-> "0.0.0-test"]

DeltaRecord(text) ==
    [type |-> "stream_event",
     event |-> [type |-> "content_block_delta", index |-> 0,
                delta |-> [type |-> "text_delta", text |-> text]]]

\* Mutant: the assistant record carries the second part only.
AssistantRecordSecondPart(j) ==
    [type |-> "assistant",
     message |-> [role |-> "assistant",
                  content |-> <<[type |-> "text", text |-> Part2(j)]>>]]

AssistantRecord(j) ==
    [type |-> "assistant",
     message |-> [role |-> "assistant",
                  content |-> <<[type |-> "text", text |-> j]>>]]

\* Mutant: the result reports the counter as it was before the turn.
ResultRecordBeforeIncrement(j, t) ==
    [type |-> "result", subtype |-> "success", result |-> j,
     num_turns |-> t - 1, total_cost_usd |-> "0.01", duration_ms |-> 500]

\* total_cost_usd is the float 0.01, kept as its decimal text
ResultRecord(j, t) ==
    [type |-> "result", subtype |-> "success", result |-> j,
     num_turns |-> t, total_cost_usd |-> "0.01", duration_ms |-> 500]

\* Mutant: the line is written and the buffer is not flushed.
EmitWithoutFlush(obj) ==
    /\ buf' = Append(buf, obj)
    /\ out' = out

\* emit(obj): write the line to the buffer of stdout, then flush the buffer
Emit(obj) ==
    /\ out' = out \o Append(buf, obj)
    /\ buf' = <<>>

-----------------------------------------------------------------------------
\* stdin.  Iterating sys.stdin yields each line with its terminator; only
\* the last line of the input can lack one, and no line is the empty string.

LineBodies == {<<>>, <<"p">>, <<" ">>, <<"\r">>}

TerminatedLines == {b \o <<"\n">> : b \in LineBodies}

UnterminatedLines == LineBodies \ {<<>>}

StdinLines == TerminatedLines \cup UnterminatedLines

-----------------------------------------------------------------------------
\* The process.

\* compress_dist is not run
DistIdle ==
    /\ cpc = "idle"
    /\ distIsDir = FALSE
    /\ fs = {}
    /\ orig = {}
    /\ todo = <<>>
    /\ ran = <<>>

Init ==
    /\ pc = "init"
    /\ turns = 0
    /\ line = <<>>
    /\ joke = <<>>
    /\ part1 = <<>>
    /\ part2 = <<>>
    /\ out = <<>>
    /\ nread = 0
    /\ nreq = 0
    /\ stdinOpen = TRUE
    /\ buf = <<>>
    /\ stdoutFailed = FALSE
    /\ slept = 0
    /\ DistIdle

\* Mutant: the loop is entered without the init record.
EmitInitSkipped ==
    /\ pc = "init"
    /\ turns' = 0
    /\ pc' = "await"
    /\ UNCHANGED <<line, joke, part1, part2, out, buf, nread, nreq, stdinOpen,
                 stdoutFailed, slept, distVars>>

\* main, the init record written before the loop
EmitInit ==
    /\ pc = "init"
    /\ Emit(InitRecord)
    /\ turns' = 0
    /\ pc' = "await"
    /\ UNCHANGED <<line, joke, part1, part2, nread, nreq, stdinOpen,
                 stdoutFailed, slept, distVars>>

\* Mutant: the joke is selected by the length of the line read.
ReadLineSelectsByLine ==
    /\ pc = "await"
    /\ stdinOpen
    /\ nread < MaxLines
    /\ \E l \in StdinLines :
         /\ nread' = nread + 1
         /\ nreq' = IF l = <<"\n">> THEN nreq ELSE nreq + 1
         /\ stdinOpen' = (l \in TerminatedLines)
         /\ line' = Rstrip(l)
         /\ IF Len(Rstrip(l)) = 0
            THEN /\ pc' = "await"
                 /\ UNCHANGED <<turns, joke, part1, part2>>
            ELSE /\ joke' = JOKES[(Len(Rstrip(l)) % Len(JOKES)) + 1]
                 /\ turns' = turns + 1
                 /\ part1' = Part1(JOKES[(Len(Rstrip(l)) % Len(JOKES)) + 1])
                 /\ part2' = Part2(JOKES[(Len(Rstrip(l)) % Len(JOKES)) + 1])
                 /\ pc' = "delta1"
    /\ UNCHANGED <<out, buf, stdoutFailed, slept, distVars>>

\* Mutant: the next line is read while the result record of the turn is
\* still to be written.
ReadLineBeforeResult ==
    /\ pc \in {"await", "result"}
    /\ stdinOpen
    /\ nread < MaxLines
    /\ \E l \in StdinLines :
         /\ nread' = nread + 1
         /\ nreq' = IF l = <<"\n">> THEN nreq ELSE nreq + 1
         /\ stdinOpen' = (l \in TerminatedLines)
         /\ line' = Rstrip(l)
         /\ IF Len(Rstrip(l)) = 0
            THEN /\ pc' = "await"
                 /\ UNCHANGED <<turns, joke, part1, part2>>
            ELSE /\ joke' = SelectJoke(turns)
                 /\ turns' = turns + 1
                 /\ part1' = Part1(SelectJoke(turns))
                 /\ part2' = Part2(SelectJoke(turns))
                 /\ pc' = "delta1"
    /\ UNCHANGED <<out, buf, stdoutFailed, slept, distVars>>

\* One iteration of  for line in sys.stdin  up to the first emit: the line
\* is stripped; an empty one is skipped (continue), any other selects the
\* joke, counts the turn and splits the joke.
ReadLine ==
    /\ pc = "await"
    /\ stdinOpen
    /\ nread < MaxLines
    /\ \E l \in StdinLines :
         /\ nread' = nread + 1
         /\ nreq' = IF l = <<"\n">> THEN nreq ELSE nreq + 1
         /\ stdinOpen' = (l \in TerminatedLines)
         /\ line' = Rstrip(l)
         /\ IF Len(Rstrip(l)) = 0
            THEN /\ pc' = "await"
                 /\ UNCHANGED <<turns, joke, part1, part2>>
            ELSE /\ joke' = SelectJoke(turns)
                 /\ turns' = turns + 1
                 /\ part1' = Part1(SelectJoke(turns))
                 /\ part2' = Part2(SelectJoke(turns))
                 /\ pc' = "delta1"
    /\ UNCHANGED <<out, buf, stdoutFailed, slept, distVars>>

\* Mutant: end of input is also acted on during the pause of a turn.
ReadEOFMidTurn ==
    /\ pc \in {"await", "sleep"}
    /\ pc' = "done"
    /\ UNCHANGED <<turns, line, joke, part1, part2, out, buf, nread, nreq, stdinOpen,
                 stdoutFailed, slept, distVars>>

\* for line in sys.stdin  at end of input: the loop ends and main returns
ReadEOF ==
    /\ pc = "await"
    /\ pc' = "done"
    /\ UNCHANGED <<turns, line, joke, part1, part2, out, buf, nread, nreq, stdinOpen,
                 stdoutFailed, slept, distVars>>

\* Mutant: the second delta follows the first with no pause.
EmitDelta1WithoutPause ==
    /\ pc = "delta1"
    /\ Emit(DeltaRecord(part1))
    /\ pc' = "delta2"
    /\ UNCHANGED <<turns, line, joke, part1, part2, nread, nreq, stdinOpen,
                   stdoutFailed, slept, distVars>>

EmitDelta1 ==
    /\ pc = "delta1"
    /\ Emit(DeltaRecord(part1))
    /\ pc' = "sleep"
    /\ UNCHANGED <<turns, line, joke, part1, part2, nread, nreq, stdinOpen,
                 stdoutFailed, slept, distVars>>

\* time.sleep(0.05)
Sleep ==
    /\ pc = "sleep"
    /\ pc' = "delta2"
    /\ slept' = slept + 1
    /\ UNCHANGED <<turns, line, joke, part1, part2, out, buf, nread, nreq, stdinOpen,
                 stdoutFailed, distVars>>

EmitDelta2 ==
    /\ pc = "delta2"
    /\ Emit(DeltaRecord(part2))
    /\ pc' = "assistant"
    /\ UNCHANGED <<turns, line, joke, part1, part2, nread, nreq, stdinOpen,
                 stdoutFailed, slept, distVars>>

\* Mutant: the turn goes on without the assistant record.
EmitAssistantSkipped ==
    /\ pc = "assistant"
    /\ pc' = "result"
    /\ UNCHANGED <<turns, line, joke, part1, part2, out, buf, nread, nreq, stdinOpen,
                 stdoutFailed, slept, distVars>>

EmitAssistant ==
    /\ pc = "assistant"
    /\ Emit(AssistantRecord(joke))
    /\ pc' = "result"
    /\ UNCHANGED <<turns, line, joke, part1, part2, nread, nreq, stdinOpen,
                 stdoutFailed, slept, distVars>>

\* Mutant: the counter is incremented once more after the result record.
EmitResultThenIncrement ==
    /\ pc = "result"
    /\ Emit(ResultRecord(joke, turns))
    /\ turns' = turns + 1
    /\ pc' = "await"
    /\ UNCHANGED <<line, joke, part1, part2, nread, nreq, stdinOpen,
                   stdoutFailed, slept, distVars>>

EmitResult ==
    /\ pc = "result"
    /\ Emit(ResultRecord(joke, turns))
    /\ pc' = "await"
    /\ UNCHANGED <<turns, line, joke, part1, part2, nread, nreq, stdinOpen,
                 stdoutFailed, slept, distVars>>

Next ==
    \/ EmitInit
    \/ ReadLine
    \/ ReadEOF
    \/ EmitDelta1
    \/ Sleep
    \/ EmitDelta2
    \/ EmitAssistant
    \/ EmitResult

Spec == Init /\ [][Next]_vars

\* The process is never suspended for ever: a sleep ends, and a read of a
\* finite input returns a line or end of input.
FairSpec == Spec /\ WF_vars(Next)

-----------------------------------------------------------------------------
\* The process with a stdout that can fail.  emit has no try, main has none
\* around its calls: an exception raised by write or flush leaves main.

\* the record main is about to emit
PendingRecord ==
    CASE pc = "init" -> InitRecord
      [] pc = "delta1" -> DeltaRecord(part1)
      [] pc = "delta2" -> DeltaRecord(part2)
      [] pc = "assistant" -> AssistantRecord(joke)
      [] pc = "result" -> ResultRecord(joke, turns)

\* Mutant: the exception is caught around the turn and the loop goes on.
EmitFailsAndIsCaught ==
    /\ pc \in {"init", "delta1", "delta2", "assistant", "result"}
    /\ stdoutFailed' = TRUE
    /\ pc' = "await"
    /\ UNCHANGED <<turns, line, joke, part1, part2, out, buf, slept, nread,
                   nreq, stdinOpen, distVars>>

\* emit raises: in write (nothing was buffered) or in flush (the line stays
\* in the buffer); the record does not reach the consumer and the
\* exception ends the process
EmitFails ==
    /\ pc \in {"init", "delta1", "delta2", "assistant", "result"}
    /\ stdoutFailed' = TRUE
    /\ buf' \in {buf, Append(buf, PendingRecord)}
    /\ pc' = "crashed"
    /\ UNCHANGED <<turns, line, joke, part1, part2, out, slept, nread, nreq,
                   stdinOpen, distVars>>

FailNext ==
    \/ EmitInit
    \/ ReadLine
    \/ ReadEOF
    \/ EmitDelta1
    \/ Sleep
    \/ EmitDelta2
    \/ EmitAssistant
    \/ EmitResult
    \/ EmitFails

FailSpec == Init /\ [][FailNext]_vars

-----------------------------------------------------------------------------
\* One turn taken alone (lines 48-96), on every string over Alphabet of
\* length at most MaxLen as the joke.

SplitInit ==
    /\ pc = "split"
    /\ joke \in Strings
    /\ turns = 0
    /\ line = <<>>
    /\ part1 = <<>>
    /\ part2 = <<>>
    /\ out = <<>>
    /\ nread = 0
    /\ nreq = 0
    /\ stdinOpen = TRUE
    /\ buf = <<>>
    /\ stdoutFailed = FALSE
    /\ slept = 0
    /\ DistIdle

\* lines 46-55 on the given joke
ApplySplit ==
    /\ pc = "split"
    /\ turns' = turns + 1
    /\ part1' = Part1(joke)
    /\ part2' = Part2(joke)
    /\ pc' = "delta1"
    /\ UNCHANGED <<line, joke, out, buf, nread, nreq, stdinOpen,
                 stdoutFailed, slept, distVars>>

SplitNext ==
    \/ ApplySplit
    \/ EmitDelta1
    \/ Sleep
    \/ EmitDelta2
    \/ EmitAssistant
    \/ EmitResult

SplitSpec == SplitInit /\ [][SplitNext]_vars

-----------------------------------------------------------------------------
\* scripts/compress_dist.py.  A path under dist is its directory and its
\* name, the name cut at its dots: assets/app.js.br is
\* [dir |-> <<"assets">>, name |-> <<"app", "js", "br">>].

File(dir, name) == [dir |-> dir, name |-> name]

\* The entries dist can hold, in the order sorted gives them; assets is a
\* directory, the others are regular files.
DistEntries ==
    << File(<<>>, <<"", "br">>),
       File(<<>>, <<"LICENSE">>),
       File(<<>>, <<"assets">>),
       File(<<"assets">>, <<"app", "js">>),
       File(<<"assets">>, <<"old", "br">>),
       File(<<>>, <<"index", "html">>),
       File(<<>>, <<"index", "html", "br">>) >>

DistDirs == {File(<<>>, <<"assets">>)}

DistFiles == {DistEntries[i] : i \in DOMAIN DistEntries} \ DistDirs

\* path.suffix: what follows the last dot of the name, with the dot, when
\* that dot is neither the first nor the last character of the name
Suffix(path) ==
    LET n == path.name
    IN  IF /\ Len(n) >= 2
           /\ n[Len(n)] # ""
           /\ \E i \in 1..(Len(n) - 1) : n[i] # "" \/ i > 1
        THEN <<".", n[Len(n)]>>
        ELSE <<>>

\* s + ".br"
WithBr(path) == [path EXCEPT !.name = Append(@, "br")]

\* sorted(dist.rglob("*")): the files present and the directories that
\* hold one
Listing(files) ==
    SelectSeq(DistEntries,
              LAMBDA e : \/ e \in files
                         \/ e \in DistDirs /\ \E f \in files : f.dir = e.name)

\* Mutant: every regular file is compressed, whatever its suffix.
ShouldCompressAnyFile(path) == path \in fs

\* path.is_file() and path.suffix != ".br"
ShouldCompress(path) == path \in fs /\ Suffix(path) # <<".", "br">>

\* the fake agent is not run
AgentIdle ==
    /\ pc = "idle"
    /\ turns = 0
    /\ line = <<>>
    /\ joke = <<>>
    /\ part1 = <<>>
    /\ part2 = <<>>
    /\ out = <<>>
    /\ buf = <<>>
    /\ stdoutFailed = FALSE
    /\ slept = 0
    /\ nread = 0
    /\ nreq = 0
    /\ stdinOpen = TRUE

\* main is entered with dist missing, or with any set of the files in it
DistInit ==
    /\ AgentIdle
    /\ cpc = "start"
    /\ distIsDir \in BOOLEAN
    /\ fs \in SUBSET DistFiles
    /\ ~distIsDir => fs = {}
    /\ orig = fs
    /\ todo = <<>>
    /\ ran = <<>>

\* main, lines 24-29: exit with status 1 when dist is no directory, else
\* list it
DistStart ==
    /\ cpc = "start"
    /\ IF ~distIsDir
       THEN /\ cpc' = "exit1"
            /\ todo' = todo
       ELSE /\ cpc' = "walk"
            /\ todo' = Listing(fs)
    /\ UNCHANGED <<distIsDir, fs, orig, ran, agentVars>>

\* main, lines 29-30: an entry that is no regular file, or has the suffix
\* .br, is passed over
SkipEntry ==
    /\ cpc = "walk"
    /\ todo # <<>>
    /\ ~ShouldCompress(Head(todo))
    /\ todo' = Tail(todo)
    /\ UNCHANGED <<cpc, distIsDir, fs, orig, ran, agentVars>>

\* compress_file, brotli succeeding: path.br is written (brotli has no
\* --force: it writes no file that exists) and path is unlinked
CompressEntry ==
    /\ cpc = "walk"
    /\ todo # <<>>
    /\ ShouldCompress(Head(todo))
    /\ WithBr(Head(todo)) \notin fs
    /\ fs' = (fs \cup {WithBr(Head(todo))}) \ {Head(todo)}
    /\ ran' = Append(ran, Head(todo))
    /\ todo' = Tail(todo)
    /\ UNCHANGED <<cpc, distIsDir, orig, agentVars>>

\* compress_file, brotli failing: check=True raises, path is not unlinked
\* and main is left
BrotliFails ==
    /\ cpc = "walk"
    /\ todo # <<>>
    /\ ShouldCompress(Head(todo))
    /\ cpc' = "raised"
    /\ UNCHANGED <<distIsDir, fs, orig, todo, ran, agentVars>>

\* main returns at the end of the listing
DistReturn ==
    /\ cpc = "walk"
    /\ todo = <<>>
    /\ cpc' = "done"
    /\ UNCHANGED <<distIsDir, fs, orig, todo, ran, agentVars>>

DistNext ==
    \/ DistStart
    \/ SkipEntry
    \/ CompressEntry
    \/ BrotliFails
    \/ DistReturn

DistSpec == DistInit /\ [][DistNext]_vars

-----------------------------------------------------------------------------
\* What the consumer of stdout sees.

IsInit(r) == r.type = "system" /\ r.subtype = "init"

IsDelta(r) == r.type = "stream_event" /\ r.event.type = "content_block_delta"

InitPositions == {i \in DOMAIN out : IsInit(out[i])}

\* The records of one kind, in the order of the stream.
Deltas == SelectSeq(out, LAMBDA r : r.type = "stream_event")

Assistants == SelectSeq(out, LAMBDA r : r.type = "assistant")

Results == SelectSeq(out, LAMBDA r : r.type = "result")

DeltaText(r) == r.event.delta.text

\* main is between turns: blocked in the read, or returned
BetweenTurns == pc \in {"await", "done"}

\* The order of the records of a turn.
TurnTypes == <<"stream_event", "stream_event", "assistant", "result">>

\* the entry of the canned list at 0-based index (k - 1) mod L
CannedOf(k) == JOKES[((k - 1) % Len(JOKES)) + 1]

-----------------------------------------------------------------------------
\* 0-based offsets >= len // 2 of j holding a character of set cs
AtOrAfterMid(j, cs) == {i \in (Len(j) \div 2)..(Len(j) - 1) : j[i + 1] \in cs}

Lowest(S) == CHOOSE i \in S : \A k \in S : i <= k

\* the two deltas of the turn are the joke cut after its first n characters
CutAfter(n) ==
    /\ DeltaText(out[1]) = SubSeq(joke, 1, n)
    /\ DeltaText(out[2]) = SubSeq(joke, n + 1, Len(joke))

-----------------------------------------------------------------------------
\* C1: the init record is emitted exactly once, it is the first record of
\* the stream, and it is out before stdin is read at all, whether the read
\* returns a line or end of input.
C1_InitOnceAndFirst ==
    /\ pc = "init" => out = <<>> /\ nread = 0
    /\ pc # "init" => InitPositions = {1}

\* C1 witness: the input was empty and main has returned: the init record
\* is the whole output.
C1_Witness == pc = "done" /\ nread = 0 /\ out = <<InitRecord>>

\* C2: after the init record the stream is made of groups of four records
\* in the order delta, delta, assistant, result, and between turns there
\* are exactly four records for every request line consumed.
C2_FourRecordsInOrder ==
    /\ \A i \in 2..Len(out) : out[i].type = TurnTypes[((i - 2) % 4) + 1]
    /\ \A i \in 2..Len(out) : out[i].type = "stream_event" => IsDelta(out[i])
    /\ BetweenTurns => Len(out) = 1 + 4 * nreq

\* C2 witness: two turns have run to completion, with a skipped line among
\* the lines read.
C2_Witness == pc = "await" /\ nreq = 2 /\ nread = 3 /\ Len(out) = 9

\* C3: the texts of the two deltas of a turn, concatenated, are the joke,
\* for every joke: empty, without a space, with its only space at or after
\* the middle in last position.
C3_DeltasConcatenate ==
    Len(out) >= 2 => DeltaText(out[1]) \o DeltaText(out[2]) = joke

\* C3 witness: both deltas are out for a joke whose only space at or after
\* the middle is its last character, and the second delta is empty.
C3_Witness ==
    /\ Len(out) >= 2
    /\ joke = <<"a", "b", " ">>
    /\ DeltaText(out[2]) = <<>>

\* C4: the num_turns of the k-th result record is k, and there are as many
\* result records as request lines consumed: skipped lines count for
\* nothing.
C4_NumTurnsIsRequestCount ==
    /\ \A k \in 1..Len(Results) : Results[k].num_turns = k
    /\ BetweenTurns => Len(Results) = nreq
    /\ pc \notin {"init", "await", "done"} => Len(Results) = nreq - 1

\* C4 witness: three requests answered among five lines read.
C4_Witness ==
    /\ pc = "await"
    /\ nreq = 3
    /\ nread = 5
    /\ Results[3].num_turns = 3

\* C5: the k-th request is answered with entry (k - 1) mod L of the canned
\* list, whatever the number of skipped lines, so that request L + 1 gets
\* the content of request 1.
C5_CannedCycle ==
    /\ \A k \in 1..Len(Results) : Results[k].result = CannedOf(k)
    /\ pc \notin {"init", "await", "done"} => joke = CannedOf(nreq)
    /\ Len(Results) > Len(JOKES) =>
           Results[Len(JOKES) + 1].result = Results[1].result

\* C5 witness: L + 1 requests answered, with a skipped line among the
\* lines read.
C5_Witness ==
    /\ Len(Results) = Len(JOKES) + 1
    /\ nread > nreq
    /\ Results[Len(JOKES) + 1].result = JOKES[1]

\* C6: a step that consumes a bare line terminator writes nothing, leaves
\* the counter (and so the position in the canned list) as it was and
\* goes back to the read; as long as nothing else was consumed the output
\* is the init record alone.
C6_EmptyLineSkipped ==
    /\ [][(nread' = nread + 1 /\ nreq' = nreq) =>
             /\ out' = out
             /\ turns' = turns
             /\ SelectJoke(turns') = SelectJoke(turns)
             /\ pc' = "await"]_vars
    /\ [](pc # "init" /\ nreq = 0 => out = <<InitRecord>>)

\* C6 witness: three bare terminators were consumed, then end of input.
C6_Witness ==
    /\ pc = "done"
    /\ nread = 3
    /\ nreq = 0
    /\ turns = 0
    /\ out = <<InitRecord>>

\* C7: main returns in the end; when it has, the output holds the init
\* record and four records for every request line; it returns only from
\* the read between turns, and writes nothing after returning.
C7_TerminatesWithAllRecords ==
    /\ <>(pc = "done")
    /\ [](pc = "done" => Len(out) = 1 + 4 * nreq)
    /\ [](pc = "done" /\ nreq > 0 => out[Len(out)].type = "result")
    /\ [][pc' = "done" => pc \in {"await", "done"}]_vars
    /\ [][pc = "done" => out' = out /\ pc' = "done"]_vars

\* C7 witness: three request lines, thirteen records, num_turns 1, 2, 3.
C7_Witness ==
    /\ pc = "done"
    /\ nreq = 3
    /\ nread = 3
    /\ Len(out) = 13
    /\ <<Results[1].num_turns, Results[2].num_turns, Results[3].num_turns>>
           = <<1, 2, 3>>

\* C8 as stated: when the joke has a whitespace character at an offset
\* >= len // 2, it is cut after the first such whitespace character.
C8_CutAfterFirstWhitespace ==
    (Len(out) >= 2 /\ AtOrAfterMid(joke, Whitespace) # {}) =>
        CutAfter(Lowest(AtOrAfterMid(joke, Whitespace)) + 1)

\* C8 amended: when the joke has a space at an offset >= len // 2, it is
\* cut after the first such space: the first delta ends with that space
\* and has no other space from the middle on.
C8_CutAfterFirstSpace ==
    (Len(out) >= 2 /\ AtOrAfterMid(joke, {" "}) # {}) =>
        LET n == Lowest(AtOrAfterMid(joke, {" "})) + 1
            text1 == DeltaText(out[1])
        IN  /\ CutAfter(n)
            /\ text1[Len(text1)] = " "
            /\ \A i \in (Len(joke) \div 2)..(Len(text1) - 2) : text1[i + 1] # " "

\* C8 witness: two spaces from the middle on; the cut is after the first.
C8_Witness ==
    /\ Len(out) >= 2
    /\ joke = <<"a", "b", " ", "a", " ">>
    /\ DeltaText(out[1]) = <<"a", "b", " ">>
    /\ DeltaText(out[2]) = <<"a", " ">>

\* C9 as stated: when the joke has no whitespace at an offset >= len // 2,
\* the first delta is its first len // 2 characters.
C9_CutAtMid ==
    (Len(out) >= 2 /\ AtOrAfterMid(joke, Whitespace) = {}) =>
        CutAfter(Len(joke) \div 2)

\* C9 amended: when the joke has no space at an offset >= len // 2, the
\* first delta is its first len // 2 + 1 characters (all of it when it is
\* empty) and the second delta is the rest.
C9_CutAfterMidCharacter ==
    (Len(out) >= 2 /\ AtOrAfterMid(joke, {" "}) = {}) =>
        CutAfter(IF joke = <<>> THEN 0 ELSE Len(joke) \div 2 + 1)

\* C9 witness: five characters, the only space before the middle: the first
\* delta has three characters.
C9_Witness ==
    /\ Len(out) >= 2
    /\ joke = <<"a", " ", "a", "b", "a">>
    /\ DeltaText(out[1]) = <<"a", " ", "a">>
    /\ DeltaText(out[2]) = <<"b", "a">>

\* C10: in every turn the assistant record has one content block, a text
\* block, whose text is the whole joke of the turn: the string the result
\* record carries as result and the two deltas of the turn add up to.
C10_FullContentInAssistantAndResult ==
    /\ \A k \in 1..Len(Assistants) :
          LET m == Assistants[k].message
          IN  /\ m.role = "assistant"
              /\ Len(m.content) = 1
              /\ m.content[1].type = "text"
              /\ m.content[1].text = CannedOf(k)
              /\ m.content[1].text =
                     DeltaText(Deltas[2 * k - 1]) \o DeltaText(Deltas[2 * k])
    /\ \A k \in 1..Len(Results) :
          /\ Results[k].result = CannedOf(k)
          /\ Results[k].result = Assistants[k].message.content[1].text
    /\ pc = "result" => Assistants[Len(Assistants)].message.content[1].text = joke

\* C10 witness: the second turn is over; its assistant and result records
\* carry the second entry of the canned list.
C10_Witness ==
    /\ pc = "await"
    /\ Len(Results) = 2
    /\ Assistants[2].message.content = <<[type |-> "text", text |-> JOKES[2]]>>
    /\ Results[2].result = JOKES[2]

\* The four records of the k-th turn, and the whole output after n turns,
\* as functions of k and n alone.
TurnRecords(k) ==
    <<DeltaRecord(Part1(CannedOf(k))), DeltaRecord(Part2(CannedOf(k))),
      AssistantRecord(CannedOf(k)), ResultRecord(CannedOf(k), k)>>

RECURSIVE OutputFor(_)
OutputFor(n) ==
    IF n = 0 THEN <<InitRecord>> ELSE OutputFor(n - 1) \o TurnRecords(n)

\* Number of records of the current turn that are out, by position of main.
OutInTurn ==
    CASE pc = "delta1" -> 0
      [] pc \in {"sleep", "delta2"} -> 1
      [] pc = "assistant" -> 2
      [] pc = "result" -> 3
      [] OTHER -> 4

\* C11: the output is a function of the number of request lines consumed,
\* whatever these lines hold and however many bare terminators were
\* consumed with them: any two runs with the same number of request lines
\* have the same output.
C11_OutputDependsOnRequestCountOnly ==
    /\ pc # "init" /\ BetweenTurns => out = OutputFor(nreq)
    /\ pc \in {"delta1", "sleep", "delta2", "assistant", "result"} =>
           out = SubSeq(OutputFor(nreq), 1, 4 * nreq - 3 + OutInTurn)

\* C11 witness: a run of four lines, two of them bare terminators and the
\* last request a carriage return, ended with the output of two requests.
C11_Witness ==
    /\ pc = "done"
    /\ nread = 4
    /\ nreq = 2
    /\ line = <<"\r">>
    /\ out = OutputFor(2)

\* C12: once a write or flush has raised, main is gone for good and not by
\* its normal return: from then on no record reaches the output and no
\* line is read, and the failing emit itself puts no record out.
C12_WriteFailureIsFatal ==
    /\ [](stdoutFailed => pc = "crashed")
    /\ [][stdoutFailed' /\ ~stdoutFailed => out' = out /\ nread' = nread]_vars
    /\ [][stdoutFailed =>
             /\ out' = out
             /\ nread' = nread
             /\ stdoutFailed'
             /\ pc' = "crashed"]_vars
    /\ [][pc' = "crashed" => stdoutFailed']_vars

\* C12 witness: the second delta of the first turn failed; the output stops
\* after the first delta.
C12_Witness ==
    /\ stdoutFailed
    /\ pc = "crashed"
    /\ nread = 1
    /\ Len(out) = 2
    /\ IsDelta(out[2])

\* the set of the files brotli compressed
Compressed == {ran[i] : i \in DOMAIN ran}

HasBrSuffix(path) == Suffix(path) = <<".", "br">>

\* C13: when main of compress_dist has returned (dist exists, no brotli
\* failed), every file under dist has the suffix .br: each file that had
\* another suffix was compressed once and replaced by its .br, each file
\* that had the suffix .br is still there and was not compressed; when
\* dist is missing main exits with status 1 and brotli was not run, no
\* file deleted.
C13_OnlyBrFilesRemain ==
    /\ cpc = "done" =>
          /\ distIsDir
          /\ \A f \in fs : HasBrSuffix(f)
          /\ \A f \in orig : HasBrSuffix(f) => f \in fs /\ f \notin Compressed
          /\ \A f \in orig : ~HasBrSuffix(f) =>
                 /\ f \notin fs
                 /\ WithBr(f) \in fs
                 /\ Cardinality({i \in DOMAIN ran : ran[i] = f}) = 1
          /\ fs = {f \in orig : HasBrSuffix(f)}
                     \cup {WithBr(f) : f \in {g \in orig : ~HasBrSuffix(g)}}
    /\ cpc = "exit1" => ~distIsDir /\ fs = orig /\ ran = <<>>
    /\ ~distIsDir /\ cpc # "start" => cpc = "exit1"

\* C13 witness: dist held two assets and one .br file; main has returned
\* and the assets are replaced.
C13_Witness ==
    /\ cpc = "done"
    /\ orig = {File(<<"assets">>, <<"app", "js">>),
               File(<<"assets">>, <<"old", "br">>),
               File(<<>>, <<"index", "html">>)}
    /\ fs = {File(<<"assets">>, <<"app", "js", "br">>),
             File(<<"assets">>, <<"old", "br">>),
             File(<<>>, <<"index", "html", "br">>)}

\* the turn the i-th record of the output belongs to, by its position
TurnAt(i) == ((i - 2) \div 4) + 1

\* the i-th record of the output is a record of turn k
BelongsTo(i, k) ==
    CASE out[i].type = "result" -> out[i].num_turns = k
      [] out[i].type = "assistant" ->
             out[i].message.content[1].text = CannedOf(k)
      [] out[i].type = "stream_event" ->
             DeltaText(out[i]) \in {Part1(CannedOf(k)), Part2(CannedOf(k))}
      [] OTHER -> FALSE

\* C14: a line is read only when the four records of every earlier request
\* are out, the output only grows at its end, and so the records of
\* request N all come before those of request N + 1.
C14_TurnsDoNotInterleave ==
    /\ [][nread' # nread => pc = "await" /\ Len(out) = 1 + 4 * nreq]_vars
    /\ [][Len(out') >= Len(out) /\ SubSeq(out', 1, Len(out)) = out]_vars
    /\ [](\A i \in 2..Len(out) : BelongsTo(i, TurnAt(i)))

\* C14 witness: the second request line has just been read, with the four
\* records of the first turn out.
C14_Witness ==
    /\ pc = "delta1"
    /\ nreq = 2
    /\ Len(out) = 5
    /\ out[5].type = "result"

\* 0-based offsets < len // 2 of j holding a character of set cs
BeforeMid(j, cs) == {i \in 0..((Len(j) \div 2) - 1) : j[i + 1] \in cs}

\* C15 as stated: when the joke is not empty and has a whitespace character
\* before its middle, neither delta is empty.
C15_NoEmptyDelta ==
    (Len(out) >= 2 /\ joke # <<>> /\ BeforeMid(joke, Whitespace) # {}) =>
        DeltaText(out[1]) # <<>> /\ DeltaText(out[2]) # <<>>

\* C15 amended: when the joke is not empty the first delta is not empty,
\* and the second delta is empty exactly when the joke has at most two
\* characters or its first space from the middle on is its last character;
\* whitespace before the middle changes nothing.
C15_SecondDeltaEmptyExactlyWhen ==
    (Len(out) >= 2 /\ joke # <<>>) =>
        /\ DeltaText(out[1]) # <<>>
        /\ DeltaText(out[2]) = <<>> <=>
               \/ Len(joke) <= 2
               \/ /\ AtOrAfterMid(joke, {" "}) # {}
                  /\ Lowest(AtOrAfterMid(joke, {" "})) = Len(joke) - 1

\* C15 witness: a space before the middle, and the only space from the
\* middle on in last position: the second delta is empty.
C15_Witness ==
    /\ Len(out) >= 2
    /\ joke = <<" ", "a", "b", " ">>
    /\ DeltaText(out[1]) = joke
    /\ DeltaText(out[2]) = <<>>

\* main is emitting the records of a turn
EmittingTurn == pc \in {"delta1", "sleep", "delta2", "assistant", "result"}

\* C16 as stated: while the records of a turn are being emitted the counter
\* is still the number of the turns completed before it.
C16_CounterUnchangedWhileEmitting == EmittingTurn => turns = nreq - 1

\* C16 amended: the counter starts at 0, never decreases, and goes up by
\* one as the first step of a turn, in the step that takes the request
\* line and before any record of the turn is out: while the records of the
\* turn are emitted it is the number of completed turns plus one, and
\* between turns the number of completed turns.
C16_CounterIncrementedAtTurnStart ==
    /\ [](pc = "init" => turns = 0)
    /\ [][turns' = turns \/ turns' = turns + 1]_vars
    /\ [][turns' = turns + 1 =>
             pc = "await" /\ pc' = "delta1" /\ nreq' = nreq + 1 /\ out' = out]_vars
    /\ [](EmittingTurn => turns = Len(Results) + 1 /\ turns = nreq)
    /\ [](BetweenTurns => turns = Len(Results) /\ turns = nreq)

\* C16 witness: the second request line is taken and no record of its turn
\* is out yet: the counter is already 2.
C16_Witness ==
    /\ pc = "delta1"
    /\ Len(Results) = 1
    /\ Len(out) = 5
    /\ turns = 2

\* C17: a pause is taken only with the first delta of a turn as the last
\* record out, and the second delta is emitted only after it: one pause
\* for every turn, none before the first delta, after the second delta,
\* after the assistant record or between turns.
C17_OnePauseBetweenDeltas ==
    /\ [][slept' # slept =>
             /\ slept' = slept + 1
             /\ out' = out
             /\ Len(Deltas) % 2 = 1
             /\ out[Len(out)].type = "stream_event"]_vars
    /\ [](Len(Deltas) % 2 = 0 => slept = Len(Deltas) \div 2)
    /\ [](Len(Deltas) % 2 = 1 =>
             slept \in {Len(Deltas) \div 2, Len(Deltas) \div 2 + 1})
    /\ [](BetweenTurns => slept = nreq)

\* C17 witness: the pause of the first turn is over, with the first delta
\* out and the second still to come.
C17_Witness ==
    /\ pc = "delta2"
    /\ slept = 1
    /\ Len(out) = 2
    /\ DeltaText(out[2]) = part1

\* C18: whenever main is blocked in the read of the next line or in the
\* pause, nothing is left in the buffer of stdout and every record written
\* so far is with the consumer: the init record before the first read, all
\* four records of every turn between turns, the first delta of the turn
\* during the pause.
C18_NothingLeftInBuffer ==
    /\ pc \in {"await", "sleep", "done"} => buf = <<>>
    /\ pc = "await" /\ nread = 0 => out = <<InitRecord>>
    /\ pc = "await" => Len(out) = 1 + 4 * nreq
    /\ pc = "sleep" =>
          /\ Len(out) = 4 * nreq - 2
          /\ out[Len(out)] = DeltaRecord(part1)

\* C18 witness: main is in the pause of the second turn, and the first
\* delta of that turn is the sixth record of the output.
C18_Witness ==
    /\ pc = "sleep"
    /\ nreq = 2
    /\ buf = <<>>
    /\ Len(out) = 6
    /\ out[6] = DeltaRecord(Part1(JOKES[2]))

\* C19: when the joke is not empty, the first delta has at least
\* len // 2 + 1 characters, so it is not empty and it is longer than the
\* second delta; the second delta is empty when the joke has one character
\* or when its first space from the middle on is its last character.
C19_FirstDeltaIsLonger ==
    (Len(out) >= 2 /\ joke # <<>>) =>
        /\ Len(DeltaText(out[1])) >= Len(joke) \div 2 + 1
        /\ DeltaText(out[1]) # <<>>
        /\ Len(DeltaText(out[1])) > Len(DeltaText(out[2]))
        /\ Len(joke) = 1 => DeltaText(out[2]) = <<>>
        /\ (/\ AtOrAfterMid(joke, {" "}) # {}
            /\ Lowest(AtOrAfterMid(joke, {" "})) = Len(joke) - 1) =>
               DeltaText(out[2]) = <<>>

\* C19 witness: a joke of one character: the first delta is the joke, the
\* second is empty.
C19_Witness ==
    /\ Len(out) >= 2
    /\ joke = <<"a">>
    /\ DeltaText(out[1]) = <<"a">>
    /\ DeltaText(out[2]) = <<>>

\* C20: a line read is skipped exactly when it is a bare line terminator;
\* every other line (spaces only, a carriage return only, a last line with
\* no terminator) starts a turn and advances the counter, and the turn
\* puts its four records out.
C20_SkippedIffBareTerminator ==
    /\ [][nread' = nread + 1 =>
             /\ nreq' = nreq <=> (pc' = "await" /\ turns' = turns /\ line' = <<>>)
             /\ nreq' = nreq + 1 <=> (pc' = "delta1" /\ turns' = turns + 1)
             /\ (line' \in {<<" ">>, <<"\r">>} \/ ~stdinOpen') =>
                    pc' = "delta1" /\ turns' = turns + 1]_vars
    /\ [](pc \in {"await", "done"} => Len(out) = 1 + 4 * turns /\ turns = nreq)

\* C20 witness: the whole input was one line of a single space with no
\* terminator: one turn of four records, the counter at 1.
C20_Witness ==
    /\ pc = "done"
    /\ nread = 1
    /\ ~stdinOpen
    /\ line = <<" ">>
    /\ turns = 1
    /\ Len(out) = 5
    /\ out[5].num_turns = 1

====
